---- MODULE Spec2Model ----
(***************************************************************************)
(* The Collector of internal/collect/collector.go: the status ledger       *)
(* (data, guarded by the reader/writer lock mu), updateStatus,             *)
(* runProcessor, New's startup recovery, Collect, Get and List, run by     *)
(* concurrent tasks (goroutines).  Every task is at one position (pc) of   *)
(* the one operation it executes.                                          *)
(***************************************************************************)
EXTENDS Integers, Sequences, FiniteSets, TLC

\* ------------------------------------------------------------------ bounds
\* Snapshots persisted before New is called (one recovery task each).
NumPersisted == 1
\* Callers of Collect / Get / List after New has returned (one call each).
NumClients == 1

RecoveryTasks == 1..NumPersisted
ClientTasks == (NumPersisted + 1)..(NumPersisted + NumClients)
Tasks == RecoveryTasks \cup ClientTasks
\* Persisted snapshots have the IDs 1..NumPersisted; PrepareSnapshot hands out
\* the following ones.  0 stands for "no snapshot" / "no task".
PersistedIDs == 1..NumPersisted
IDs == 1..(NumPersisted + NumClients)

\* ---------------------------------------------------------------- constants
StatusOk == "ok"
StatusFail == "fail"
StatusPending == "pending"
Statuses == {StatusPending, StatusOk, StatusFail}

NoErr == ""
\* Error texts of the external collaborators (snapshot.Collect, Process).
CaptureErrors == {"connection refused"}
ProcErrors == {"bad profile"}
\* Inputs of Collect: SnapshotTarget{URL, Duration}.
URLs == {"", "http://e"}
Durations == {0, 5}
Targets == [URL : URLs, Duration : Durations]
NoTarget == [URL |-> "", Duration |-> 0]

Entry(s, status, msg) == [Snapshot |-> s, Status |-> status, Message |-> msg]
NoEntry == [Snapshot |-> 0, Status |-> "none", Message |-> ""]
NoUpd == [status |-> "none", msg |-> ""]

VARIABLES
    newPc,          \* New: "start", "spawning", "returned", "failed"
    spawnIdx,       \* New: index of the next listed snapshot to spawn a task for
    pc,             \* position of every task
    op,             \* the operation a task runs: "none", "runProcessor", "Collect", "Get", "List"
    target,         \* Collect's argument
    arg,            \* Get's argument (an ID)
    snap,           \* the snapshot (by ID) a task works on, 0 if none
    upd,            \* arguments of the updateStatus call in progress
    cont,           \* position to continue at when updateStatus returns
    perr,           \* error returned to the task by processor.Process ("" = nil)
    cerr,           \* Collect: error returned by snapshot.Collect() ("" = nil)
    ret,            \* error returned by the operation ("" = nil)
    wholder,        \* mu: the task that called Lock and holds the writer side, 0 if none
    readers,        \* mu: tasks holding the shared lock
    data,           \* the ledger: ID -> Entry
    cache,          \* Caching Processor: ID -> "none" | "inflight" | "done"
    nextId,         \* storage: next ID PrepareSnapshot allocates
    pruneSpawned,   \* ID -> number of `go snapshot.Prune()` started
    pruneDone,      \* ID -> number of Prune calls that ran
    published,      \* number of Publish calls made
    \* history variables (not program state)
    hist,           \* ID -> sequence of Entries written to the ledger
    lastCompleted,  \* ID -> Entry written by the last updateStatus that returned
    effects,        \* task -> kinds of side effect its operation performed
    absent,         \* the ID was not in the ledger when Collect got it / when Get looked it up
    wrote,          \* task -> ledger keys its operation wrote
    got,            \* Get: the Entry found by the lookup
    listResult,     \* List: the Entries appended to the response so far
    listTodo,       \* List: keys the range loop has still to visit
    underlyingCalls,\* ID -> number of invocations of the underlying Process
    flight          \* task -> the invocation (by number) its Process call was served by

vars == <<newPc, spawnIdx, pc, op, target, arg, snap, upd, cont, perr, cerr, ret,
          wholder, readers, data, cache, nextId, pruneSpawned, pruneDone,
          published, hist, lastCompleted, effects, absent, wrote, got,
          listResult, listTodo, underlyingCalls, flight>>

taskVars == <<op, target, arg, snap, upd, cont, perr, cerr, ret>>
lockVars == <<wholder, readers>>
newVars == <<newPc, spawnIdx>>
pruneVars == <<pruneSpawned, pruneDone>>
readVars == <<got, listResult, listTodo>>
procVars == <<underlyingCalls, flight>>

Init ==
    /\ newPc = "start"
    /\ spawnIdx = 1
    /\ pc = [t \in Tasks |-> IF t \in RecoveryTasks THEN "unspawned" ELSE "idle"]
    /\ op = [t \in Tasks |-> IF t \in RecoveryTasks THEN "runProcessor" ELSE "none"]
    /\ target = [t \in Tasks |-> NoTarget]
    /\ arg = [t \in Tasks |-> 0]
    /\ snap = [t \in Tasks |-> 0]
    /\ upd = [t \in Tasks |-> NoUpd]
    /\ cont = [t \in Tasks |-> "none"]
    /\ perr = [t \in Tasks |-> NoErr]
    /\ cerr = [t \in Tasks |-> NoErr]
    /\ ret = [t \in Tasks |-> NoErr]
    /\ wholder = 0
    /\ readers = {}
    /\ data = [i \in {} |-> NoEntry]
    /\ cache = [i \in IDs |-> "none"]
    /\ nextId = NumPersisted + 1
    /\ pruneSpawned = [i \in IDs |-> 0]
    /\ pruneDone = [i \in IDs |-> 0]
    /\ published = 0
    /\ hist = [i \in IDs |-> <<>>]
    /\ lastCompleted = [i \in {} |-> NoEntry]
    /\ effects = [t \in Tasks |-> {}]
    /\ absent = [t \in Tasks |-> FALSE]
    /\ wrote = [t \in Tasks |-> {}]
    /\ got = [t \in Tasks |-> NoEntry]
    /\ listResult = [t \in Tasks |-> {}]
    /\ listTodo = [t \in Tasks |-> {}]
    /\ underlyingCalls = [i \in IDs |-> 0]
    /\ flight = [t \in Tasks |-> 0]

\* ----------------------------------------------------------------- helpers
AddEffect(t, e) == effects' = [effects EXCEPT ![t] = @ \cup {e}]

\* The map assignment c.data[snapshot.ID] = &Entry{...}.
Put(m, e) == [i \in DOMAIN m \cup {e.Snapshot} |-> IF i = e.Snapshot THEN e ELSE m[i]]

\* A task holds mu exclusively once Lock has returned: it is then inside
\* updateStatus after the map write, executing Publish.
HoldsExclusive(t) == wholder = t /\ pc[t] = "us_publish"
HoldsShared(t) == t \in readers

\* The call updateStatus(snapshot, status, msg), to continue at k.
CallUpdateStatus(t, status, msg, k) ==
    /\ pc' = [pc EXCEPT ![t] = "us_lock"]
    /\ upd' = [upd EXCEPT ![t] = [status |-> status, msg |-> msg]]
    /\ cont' = [cont EXCEPT ![t] = k]

\* runProcessor is entered: c.updateStatus(snapshot, StatusPending,
\* "Processing"), then the call of Process.
RunProcessorStart(t) == CallUpdateStatus(t, StatusPending, "Processing", "proc_call")

\* ------------------------------------------------------------------- New
\* newStorage or store.List fails: New returns (nil, err), no Collector exists.
NewFail ==
    /\ newPc = "start"
    /\ newPc' = "failed"
    /\ UNCHANGED <<spawnIdx, pc, taskVars, lockVars, data, cache, nextId, pruneVars,
                   published, hist, lastCompleted, effects, absent, wrote,
                   readVars, procVars>>

\* The Collector is built and store.List() returned the persisted snapshots.
NewListed ==
    /\ newPc = "start"
    /\ newPc' = "spawning"
    /\ UNCHANGED <<spawnIdx, pc, taskVars, lockVars, data, cache, nextId, pruneVars,
                   published, hist, lastCompleted, effects, absent, wrote,
                   readVars, procVars>>

\* One iteration of the loop: go c.runProcessor(snapshot); the new task is
\* about to make runProcessor's first call.
NewSpawn ==
    /\ newPc = "spawning"
    /\ spawnIdx <= NumPersisted
    /\ RunProcessorStart(spawnIdx)
    /\ snap' = [snap EXCEPT ![spawnIdx] = spawnIdx]
    /\ spawnIdx' = spawnIdx + 1
    /\ UNCHANGED <<newPc, op, target, arg, perr, cerr, ret, lockVars, data,
                   cache, nextId, pruneVars, published, hist, lastCompleted,
                   effects, absent, wrote, readVars, procVars>>

\* (variant: the loop is left one snapshot early)
NewReturnEarly ==
    /\ newPc = "spawning"
    /\ spawnIdx >= NumPersisted
    /\ newPc' = "returned"
    /\ UNCHANGED <<spawnIdx, pc, taskVars, lockVars, data, cache, nextId, pruneVars,
                   published, hist, lastCompleted, effects, absent, wrote,
                   readVars, procVars>>

\* return c, nil
NewReturn ==
    /\ newPc = "spawning"
    /\ spawnIdx > NumPersisted
    /\ newPc' = "returned"
    /\ UNCHANGED <<spawnIdx, pc, taskVars, lockVars, data, cache, nextId, pruneVars,
                   published, hist, lastCompleted, effects, absent, wrote,
                   readVars, procVars>>

\* ----------------------------------------------------------- updateStatus
\* The write done under the exclusive lock, on entering it.
WriteEntry(t) ==
    LET e == Entry(snap[t], upd[t].status, upd[t].msg) IN
    /\ data' = Put(data, e)
    /\ hist' = [hist EXCEPT ![snap[t]] = Append(@, e)]
    /\ wrote' = [wrote EXCEPT ![t] = @ \cup {snap[t]}]
    /\ AddEffect(t, "write")

\* c.mu.Lock(): the caller takes the writer side, which keeps new readers
\* out (sync.RWMutex), and enters when no reader is left; with no reader it
\* enters at once and writes the map.
USLock(t) ==
    /\ pc[t] = "us_lock"
    /\ wholder = 0
    /\ wholder' = t
    /\ IF readers = {}
         THEN /\ WriteEntry(t)
              /\ pc' = [pc EXCEPT ![t] = "us_publish"]
         ELSE /\ pc' = [pc EXCEPT ![t] = "us_wait"]
              /\ UNCHANGED <<data, hist, wrote, effects>>
    /\ UNCHANGED <<newVars, taskVars, readers, cache, nextId, pruneVars, published,
                   lastCompleted, absent, readVars, procVars>>

\* Lock returns once the readers have left; the map is written.
USAcquire(t) ==
    /\ pc[t] = "us_wait"
    /\ wholder = t
    /\ readers = {}
    /\ WriteEntry(t)
    /\ pc' = [pc EXCEPT ![t] = "us_publish"]
    /\ UNCHANGED <<newVars, taskVars, lockVars, cache, nextId, pruneVars, published,
                   lastCompleted, absent, readVars, procVars>>

\* (variant: updateStatus without `defer c.mu.Unlock()`)
USPublishReturnNoUnlock(t) ==
    /\ pc[t] = "us_publish"
    /\ published' = published + 1
    /\ AddEffect(t, "publish")
    /\ lastCompleted' = Put(lastCompleted, data[snap[t]])
    /\ pc' = [pc EXCEPT ![t] = cont[t]]
    /\ upd' = [upd EXCEPT ![t] = NoUpd]
    /\ cont' = [cont EXCEPT ![t] = "none"]
    /\ UNCHANGED <<newVars, op, target, arg, snap, perr, cerr, ret, lockVars, data, cache,
                   nextId, pruneVars, hist, absent, wrote, readVars,
                   procVars>>

\* (variant: updateStatus without the call of c.publisher.Publish())
USReturnNoPublish(t) ==
    /\ pc[t] = "us_publish"
    /\ wholder' = 0
    /\ lastCompleted' = Put(lastCompleted, data[snap[t]])
    /\ pc' = [pc EXCEPT ![t] = cont[t]]
    /\ upd' = [upd EXCEPT ![t] = NoUpd]
    /\ cont' = [cont EXCEPT ![t] = "none"]
    /\ UNCHANGED <<newVars, op, target, arg, snap, perr, cerr, ret, readers, data, cache,
                   nextId, pruneVars, published, hist, effects, absent, wrote,
                   readVars, procVars>>

\* c.publisher.Publish() returns, then the deferred c.mu.Unlock() runs and
\* updateStatus returns to its caller.
USPublishReturn(t) ==
    /\ pc[t] = "us_publish"
    /\ published' = published + 1
    /\ AddEffect(t, "publish")
    /\ wholder' = 0
    /\ lastCompleted' = Put(lastCompleted, data[snap[t]])
    /\ pc' = [pc EXCEPT ![t] = cont[t]]
    /\ upd' = [upd EXCEPT ![t] = NoUpd]
    /\ cont' = [cont EXCEPT ![t] = "none"]
    /\ UNCHANGED <<newVars, op, target, arg, snap, perr, cerr, ret, readers, data, cache,
                   nextId, pruneVars, hist, absent, wrote, readVars,
                   procVars>>

\* ------------------------------------------------------ Caching Processor
\* Where a task continues when c.processor.Process returns.
AfterProcess(t) == IF op[t] = "Get" THEN "g_ret" ELSE "rp_after"

\* (variant: no single-flight; a caller that finds a computation in flight
\* starts the underlying processor again)
ProcessCallNoSingleFlight(t) ==
    /\ pc[t] = "proc_call"
    /\ AddEffect(t, "process")
    /\ \/ /\ cache[snap[t]] = "done"
          /\ perr' = [perr EXCEPT ![t] = NoErr]
          /\ pc' = [pc EXCEPT ![t] = AfterProcess(t)]
          /\ flight' = [flight EXCEPT ![t] = underlyingCalls[snap[t]]]
          /\ UNCHANGED <<cache, underlyingCalls>>
       \/ /\ cache[snap[t]] # "done"
          /\ cache' = [cache EXCEPT ![snap[t]] = "inflight"]
          /\ underlyingCalls' = [underlyingCalls EXCEPT ![snap[t]] = @ + 1]
          /\ flight' = [flight EXCEPT ![t] = underlyingCalls[snap[t]] + 1]
          /\ pc' = [pc EXCEPT ![t] = "proc_run"]
          /\ UNCHANGED perr
    /\ UNCHANGED <<newVars, op, target, arg, snap, upd, cont, cerr, ret, lockVars,
                   data, nextId, pruneVars, published, hist, lastCompleted,
                   absent, wrote, readVars>>

\* Process(snapshot) is entered: a cached result is returned at once, a
\* computation in flight for the same ID is waited for, and otherwise the
\* caller starts the underlying processor.
ProcessCall(t) ==
    /\ pc[t] = "proc_call"
    /\ AddEffect(t, "process")
    /\ \/ /\ cache[snap[t]] = "done"
          /\ perr' = [perr EXCEPT ![t] = NoErr]
          /\ pc' = [pc EXCEPT ![t] = AfterProcess(t)]
          /\ flight' = [flight EXCEPT ![t] = underlyingCalls[snap[t]]]
          /\ UNCHANGED <<cache, underlyingCalls>>
       \/ /\ cache[snap[t]] = "inflight"
          /\ pc' = [pc EXCEPT ![t] = "proc_wait"]
          /\ flight' = [flight EXCEPT ![t] = underlyingCalls[snap[t]]]
          /\ UNCHANGED <<perr, cache, underlyingCalls>>
       \/ /\ cache[snap[t]] = "none"
          /\ cache' = [cache EXCEPT ![snap[t]] = "inflight"]
          /\ underlyingCalls' = [underlyingCalls EXCEPT ![snap[t]] = @ + 1]
          /\ flight' = [flight EXCEPT ![t] = underlyingCalls[snap[t]] + 1]
          /\ pc' = [pc EXCEPT ![t] = "proc_run"]
          /\ UNCHANGED perr
    /\ UNCHANGED <<newVars, op, target, arg, snap, upd, cont, cerr, ret, lockVars,
                   data, nextId, pruneVars, published, hist, lastCompleted,
                   absent, wrote, readVars>>

\* The underlying processor returns e to the task that started it: a result
\* is cached, a failure is not; the callers waiting for this computation get
\* the same outcome.
UnderlyingReturn(t, e) ==
    /\ pc[t] = "proc_run"
    /\ LET done == {w \in Tasks : w = t \/ (pc[w] = "proc_wait" /\ snap[w] = snap[t])} IN
       /\ perr' = [w \in Tasks |-> IF w \in done THEN e ELSE perr[w]]
       /\ pc' = [w \in Tasks |-> IF w \in done THEN AfterProcess(w) ELSE pc[w]]
    /\ cache' = [cache EXCEPT ![snap[t]] = IF e = NoErr THEN "done" ELSE "none"]
    /\ UNCHANGED <<newVars, op, target, arg, snap, upd, cont, cerr, ret, lockVars,
                   data, nextId, pruneVars, published, hist, lastCompleted, effects,
                   absent, wrote, readVars, procVars>>

\* ----------------------------------------------------------- runProcessor
\* (variant: the branches of `if err != nil` exchanged)
RunProcessorResultSwapped(e) ==
    IF e = NoErr THEN [status |-> StatusFail, msg |-> e]
                 ELSE [status |-> StatusOk, msg |-> "Ready"]

\* (variant: Fail recorded with the text of the error runProcessor returns)
RunProcessorResultWrapped(e) ==
    IF e # NoErr THEN [status |-> StatusFail, msg |-> "processor aborted: " \o e]
                 ELSE [status |-> StatusOk, msg |-> "Ready"]

\* What runProcessor records for the outcome e of Process.
RunProcessorResult(e) ==
    IF e # NoErr THEN [status |-> StatusFail, msg |-> e]
                 ELSE [status |-> StatusOk, msg |-> "Ready"]

\* (variant: runProcessor returns nil on both branches)
RunProcessorErrNil(e) == NoErr

\* What runProcessor returns for the outcome e of Process.
RunProcessorErr(e) == IF e # NoErr THEN "processor aborted: " \o e ELSE NoErr

\* (variant: the failure branch without `go snapshot.Prune()`)
SpawnsPruneNever(e) == FALSE

\* (variant: `go snapshot.Prune()` on both branches)
SpawnsPruneAlways(e) == TRUE

\* Whether runProcessor starts `go snapshot.Prune()` for the outcome e.
SpawnsPrune(e) == e # NoErr

\* Where a task continues when runProcessor returns: a recovery task ends
\* (its result is dropped), Collect goes on with the returned error.
AfterRunProcessor(t) == IF op[t] = "Collect" THEN "c_after_rp" ELSE "done"

\* Process has returned: on an error start the Prune task, then record Fail
\* with the error text; otherwise close the result and record Ok.
RunProcessorAfter(t) ==
    /\ pc[t] = "rp_after"
    /\ IF SpawnsPrune(perr[t])
         THEN /\ pruneSpawned' = [pruneSpawned EXCEPT ![snap[t]] = @ + 1]
              /\ AddEffect(t, "prune")
         ELSE UNCHANGED <<pruneSpawned, effects>>
    /\ CallUpdateStatus(t, RunProcessorResult(perr[t]).status,
                        RunProcessorResult(perr[t]).msg, AfterRunProcessor(t))
    /\ UNCHANGED <<newVars, op, target, arg, snap, perr, cerr, ret, lockVars, data, cache,
                   nextId, pruneDone, published, hist, lastCompleted, absent,
                   wrote, readVars, procVars>>

\* (variant: pruning a snapshot also deletes its key from c.data)
PruneDeletes(i) ==
    /\ pruneDone[i] < pruneSpawned[i]
    /\ pruneDone' = [pruneDone EXCEPT ![i] = @ + 1]
    /\ data' = [k \in DOMAIN data \ {i} |-> data[k]]
    /\ UNCHANGED <<newVars, pc, taskVars, lockVars, cache, nextId,
                   pruneSpawned, published, hist, lastCompleted, effects,
                   absent, wrote, readVars, procVars>>

\* The task started by `go snapshot.Prune()` runs.
Prune(i) ==
    /\ pruneDone[i] < pruneSpawned[i]
    /\ pruneDone' = [pruneDone EXCEPT ![i] = @ + 1]
    /\ UNCHANGED <<newVars, pc, taskVars, lockVars, data, cache, nextId,
                   pruneSpawned, published, hist, lastCompleted, effects,
                   absent, wrote, readVars, procVars>>

\* ---------------------------------------------------------------- Collect
\* Clients are interchangeable: they are numbered in the order of their calls.
CanCall(t) ==
    /\ newPc = "returned"
    /\ pc[t] = "idle"
    /\ (t - 1) \in ClientTasks => pc[t - 1] # "idle"

\* storage.PrepareSnapshot: the ID of the snapshot it allocates, never used
\* before (neither persisted nor allocated earlier).
PrepareSnapshotID == nextId

\* (variant: only the URL is validated)
ValidTargetURLOnly(tg) == ~(tg.URL = "")

\* The negation of Collect's rejection test.
ValidTarget(tg) == ~(tg.URL = "" \/ tg.Duration = 0)

\* Collect(target): an invalid target is rejected; otherwise storage
\* allocates the snapshot (a fresh ID) and it is marked Pending "Collecting".
CollectCall(t, tg) ==
    /\ CanCall(t)
    /\ op' = [op EXCEPT ![t] = "Collect"]
    /\ target' = [target EXCEPT ![t] = tg]
    /\ IF ValidTarget(tg)
         THEN /\ snap' = [snap EXCEPT ![t] = PrepareSnapshotID]
              /\ absent' = [absent EXCEPT ![t] = PrepareSnapshotID \notin DOMAIN data]
              /\ nextId' = nextId + 1
              /\ AddEffect(t, "prepare")
              /\ CallUpdateStatus(t, StatusPending, "Collecting", "c_capture")
              /\ UNCHANGED ret
         ELSE /\ ret' = [ret EXCEPT ![t] = "URL and Duration cannot be nil"]
              /\ pc' = [pc EXCEPT ![t] = "done"]
              /\ UNCHANGED <<snap, nextId, effects, upd, cont, absent>>
    /\ UNCHANGED <<newVars, arg, perr, cerr, lockVars, data, cache, pruneVars, published,
                   hist, lastCompleted, wrote, readVars, procVars>>

\* (variant: the capture error is recorded with Collect's wrapping)
CaptureFailMsgWrapped(e) == "failed to collect: " \o e

\* The Message Collect records for the capture error e: err.Error().
CaptureFailMsg(e) == e

\* snapshot.Collect() returns e: on an error record Fail with its text and
\* return "failed to collect: ..."; otherwise enter runProcessor.
CollectCapture(t, e) ==
    /\ pc[t] = "c_capture"
    /\ AddEffect(t, "capture")
    /\ cerr' = [cerr EXCEPT ![t] = e]
    /\ IF e # NoErr
         THEN /\ CallUpdateStatus(t, StatusFail, CaptureFailMsg(e), "done")
              /\ ret' = [ret EXCEPT ![t] = "failed to collect: " \o e]
         ELSE /\ RunProcessorStart(t)
              /\ UNCHANGED ret
    /\ UNCHANGED <<newVars, op, target, arg, snap, perr, lockVars, data, cache,
                   nextId, pruneVars, published, hist, lastCompleted, absent,
                   wrote, readVars, procVars>>

\* (variant: the test of runProcessor's result inverted, `err == nil`)
CollectAfterRunProcessorInverted(t) ==
    /\ pc[t] = "c_after_rp"
    /\ IF RunProcessorErr(perr[t]) = NoErr
         THEN /\ CallUpdateStatus(t, StatusFail, RunProcessorErr(perr[t]), "done")
              /\ ret' = [ret EXCEPT ![t] = "failed to process: " \o RunProcessorErr(perr[t])]
         ELSE /\ pc' = [pc EXCEPT ![t] = "done"]
              /\ UNCHANGED <<upd, cont, ret>>
    /\ UNCHANGED <<newVars, op, target, arg, snap, perr, cerr, lockVars, data, cache,
                   nextId, pruneVars, published, hist, lastCompleted, effects,
                   absent, wrote, readVars, procVars>>

\* runProcessor has returned to Collect: on an error record Fail with the
\* returned error's text and return "failed to process: ..."; else return nil.
CollectAfterRunProcessor(t) ==
    /\ pc[t] = "c_after_rp"
    /\ IF RunProcessorErr(perr[t]) # NoErr
         THEN /\ CallUpdateStatus(t, StatusFail, RunProcessorErr(perr[t]), "done")
              /\ ret' = [ret EXCEPT ![t] = "failed to process: " \o RunProcessorErr(perr[t])]
         ELSE /\ pc' = [pc EXCEPT ![t] = "done"]
              /\ UNCHANGED <<upd, cont, ret>>
    /\ UNCHANGED <<newVars, op, target, arg, snap, perr, cerr, lockVars, data, cache,
                   nextId, pruneVars, published, hist, lastCompleted, effects,
                   absent, wrote, readVars, procVars>>

\* -------------------------------------------------------------------- Get
GetCall(t, i) ==
    /\ CanCall(t)
    /\ op' = [op EXCEPT ![t] = "Get"]
    /\ arg' = [arg EXCEPT ![t] = i]
    /\ pc' = [pc EXCEPT ![t] = "g_rlock"]
    /\ UNCHANGED <<newVars, target, snap, upd, cont, perr, cerr, ret, lockVars, data,
                   cache, nextId, pruneVars, published, hist, lastCompleted,
                   effects, absent, wrote, readVars, procVars>>

\* ent, ok := c.data[id]
Found(i) == i \in DOMAIN data

\* (variant: no early return when the ID is absent; Process is called for
\* the requested ID)
GetRLockNoCheck(t) ==
    /\ pc[t] = "g_rlock"
    /\ wholder = 0
    /\ readers' = readers \cup {t}
    /\ absent' = [absent EXCEPT ![t] = arg[t] \notin DOMAIN data]
    /\ got' = [got EXCEPT ![t] = IF Found(arg[t]) THEN data[arg[t]] ELSE NoEntry]
    /\ snap' = [snap EXCEPT ![t] = arg[t]]
    /\ pc' = [pc EXCEPT ![t] = "proc_call"]
    /\ UNCHANGED <<newVars, op, target, arg, upd, cont, perr, cerr, ret, wholder, data,
                   cache, nextId, pruneVars, published, hist, lastCompleted,
                   effects, wrote, listResult, listTodo, procVars>>

\* (variant: for an Entry that is Fail, Get replays the recorded Message as
\* the error instead of calling Process)
GetRLockReplaysFail(t) ==
    /\ pc[t] = "g_rlock"
    /\ wholder = 0
    /\ readers' = readers \cup {t}
    /\ absent' = [absent EXCEPT ![t] = arg[t] \notin DOMAIN data]
    /\ IF Found(arg[t])
         THEN /\ got' = [got EXCEPT ![t] = data[arg[t]]]
              /\ snap' = [snap EXCEPT ![t] = data[arg[t]].Snapshot]
              /\ IF data[arg[t]].Status = StatusFail
                   THEN /\ perr' = [perr EXCEPT ![t] = data[arg[t]].Message]
                        /\ pc' = [pc EXCEPT ![t] = "g_ret"]
                   ELSE /\ pc' = [pc EXCEPT ![t] = "proc_call"]
                        /\ UNCHANGED perr
              /\ UNCHANGED ret
         ELSE /\ ret' = [ret EXCEPT ![t] = "no such entry: <nil>"]
              /\ pc' = [pc EXCEPT ![t] = "g_ret"]
              /\ UNCHANGED <<got, snap, perr>>
    /\ UNCHANGED <<newVars, op, target, arg, upd, cont, cerr, wholder, data, cache,
                   nextId, pruneVars, published, hist, lastCompleted, effects,
                   wrote, listResult, listTodo, procVars>>

\* c.mu.RLock() returns (no writer holds or awaits the lock) and the ID is
\* looked up: absent, Get is about to return the error; present, it calls
\* Process with the Entry's snapshot, the shared lock still held.
GetRLock(t) ==
    /\ pc[t] = "g_rlock"
    /\ wholder = 0
    /\ readers' = readers \cup {t}
    /\ absent' = [absent EXCEPT ![t] = arg[t] \notin DOMAIN data]
    /\ IF Found(arg[t])
         THEN /\ got' = [got EXCEPT ![t] = data[arg[t]]]
              /\ snap' = [snap EXCEPT ![t] = data[arg[t]].Snapshot]
              /\ pc' = [pc EXCEPT ![t] = "proc_call"]
              /\ UNCHANGED ret
         ELSE /\ ret' = [ret EXCEPT ![t] = "no such entry: <nil>"]
              /\ pc' = [pc EXCEPT ![t] = "g_ret"]
              /\ UNCHANGED <<got, snap>>
    /\ UNCHANGED <<newVars, op, target, arg, upd, cont, perr, cerr, wholder, data, cache,
                   nextId, pruneVars, published, hist, lastCompleted, effects,
                   wrote, listResult, listTodo, procVars>>

\* Get returns (Process's result, or the lookup error): the deferred
\* c.mu.RUnlock() runs.
GetReturn(t) ==
    /\ pc[t] = "g_ret"
    /\ readers' = readers \ {t}
    /\ ret' = [ret EXCEPT ![t] = IF got[t] = NoEntry THEN @ ELSE perr[t]]
    /\ pc' = [pc EXCEPT ![t] = "done"]
    /\ UNCHANGED <<newVars, op, target, arg, snap, upd, cont, perr, cerr, wholder, data,
                   cache, nextId, pruneVars, published, hist, lastCompleted,
                   effects, absent, wrote, readVars, procVars>>

\* ------------------------------------------------------------------- List
ListCall(t) ==
    /\ CanCall(t)
    /\ op' = [op EXCEPT ![t] = "List"]
    /\ pc' = [pc EXCEPT ![t] = "l_rlock"]
    /\ UNCHANGED <<newVars, target, arg, snap, upd, cont, perr, cerr, ret, lockVars, data,
                   cache, nextId, pruneVars, published, hist, lastCompleted,
                   effects, absent, wrote, readVars, procVars>>

\* (variant: the shared lock is taken without waiting for the writer to leave)
ListRLockUnguarded(t) ==
    /\ pc[t] = "l_rlock"
    /\ readers' = readers \cup {t}
    /\ listResult' = [listResult EXCEPT ![t] = {}]
    /\ listTodo' = [listTodo EXCEPT ![t] = DOMAIN data]
    /\ pc' = [pc EXCEPT ![t] = "l_copy"]
    /\ UNCHANGED <<newVars, taskVars, wholder, data, cache, nextId, pruneVars,
                   published, hist, lastCompleted, effects, absent, wrote,
                   got, procVars>>

\* (variant: List without c.mu.RLock(); the range runs beside the writers)
ListRLockNoLock(t) ==
    /\ pc[t] = "l_rlock"
    /\ listResult' = [listResult EXCEPT ![t] = {}]
    /\ listTodo' = [listTodo EXCEPT ![t] = DOMAIN data]
    /\ pc' = [pc EXCEPT ![t] = "l_copy"]
    /\ UNCHANGED <<newVars, taskVars, lockVars, data, cache, nextId, pruneVars,
                   published, hist, lastCompleted, effects, absent, wrote,
                   got, procVars>>

\* c.mu.RLock() returns (no writer holds or awaits the lock); resp is made
\* empty and the range over c.data starts.
ListRLock(t) ==
    /\ pc[t] = "l_rlock"
    /\ wholder = 0
    /\ readers' = readers \cup {t}
    /\ listResult' = [listResult EXCEPT ![t] = {}]
    /\ listTodo' = [listTodo EXCEPT ![t] = DOMAIN data]
    /\ pc' = [pc EXCEPT ![t] = "l_copy"]
    /\ UNCHANGED <<newVars, taskVars, wholder, data, cache, nextId, pruneVars,
                   published, hist, lastCompleted, effects, absent, wrote,
                   got, procVars>>

\* One iteration of the range loop, in the map's (unspecified) order:
\* resp = append(resp, ent).
ListCopy(t, i) ==
    /\ pc[t] = "l_copy"
    /\ i \in listTodo[t]
    /\ listResult' = [listResult EXCEPT ![t] = @ \cup {data[i]}]
    /\ listTodo' = [listTodo EXCEPT ![t] = @ \ {i}]
    /\ UNCHANGED <<newVars, pc, taskVars, lockVars, data, cache, nextId, pruneVars,
                   published, hist, lastCompleted, effects, absent, wrote,
                   got, procVars>>

\* The loop is over: return resp, with the deferred c.mu.RUnlock().
ListReturn(t) ==
    /\ pc[t] = "l_copy"
    /\ listTodo[t] = {}
    /\ readers' = readers \ {t}
    /\ pc' = [pc EXCEPT ![t] = "done"]
    /\ UNCHANGED <<newVars, taskVars, wholder, data, cache, nextId, pruneVars,
                   published, hist, lastCompleted, effects, absent, wrote,
                   readVars, procVars>>

\* ------------------------------------------------------------ the program
TaskStep(t) ==
    \/ USLock(t)
    \/ USAcquire(t)
    \/ USPublishReturn(t)
    \/ ProcessCall(t)
    \/ \E e \in {NoErr} \cup ProcErrors : UnderlyingReturn(t, e)
    \/ RunProcessorAfter(t)
    \/ \E tg \in Targets : CollectCall(t, tg)
    \/ \E e \in {NoErr} \cup CaptureErrors : CollectCapture(t, e)
    \/ CollectAfterRunProcessor(t)
    \/ \E i \in IDs : GetCall(t, i)
    \/ GetRLock(t)
    \/ GetReturn(t)
    \/ ListCall(t)
    \/ ListRLock(t)
    \/ \E i \in IDs : ListCopy(t, i)
    \/ ListReturn(t)

Next ==
    \/ NewFail
    \/ NewListed
    \/ NewSpawn
    \/ NewReturn
    \/ \E t \in Tasks : TaskStep(t)
    \/ \E i \in IDs : Prune(i)

Spec == Init /\ [][Next]_vars

\* Every task that can take a step eventually takes one (goroutines are
\* scheduled), and so does New.
FairSpec ==
    /\ Spec
    /\ WF_vars(NewListed \/ NewSpawn \/ NewReturn)
    /\ \A t \in Tasks : WF_vars(TaskStep(t))
    /\ \A i \in IDs : WF_vars(Prune(i))
\* ================================================================= claims
Returned(t) == pc[t] = "done"
RejectedText == "URL and Duration cannot be nil"

\* A Collect call that has returned after capture and processing succeeded.
CollectSucceeded(t) ==
    /\ op[t] = "Collect" /\ Returned(t)
    /\ target[t].URL # "" /\ target[t].Duration # 0
    /\ cerr[t] = NoErr /\ perr[t] = NoErr

\* C1: when Collect returns for a valid target whose capture and processing
\* succeeded, the ledger holds exactly one Entry this call added (its
\* snapshot's, absent before the call) and that Entry is Ok / "Ready".
C1_CollectSuccess ==
    \A t \in ClientTasks : CollectSucceeded(t) =>
        /\ absent[t]
        /\ wrote[t] = {snap[t]}
        /\ snap[t] \in DOMAIN data
        /\ data[snap[t]] = Entry(snap[t], StatusOk, "Ready")
        /\ Cardinality({e \in {data[i] : i \in DOMAIN data} : e.Snapshot \in wrote[t]}) = 1

C1_Witness == \E t \in ClientTasks : CollectSucceeded(t) /\ DOMAIN data # {snap[t]}

\* A Collect call with an empty endpoint or a zero duration.
CollectInvalid(t) ==
    op[t] = "Collect" /\ (target[t].URL = "" \/ target[t].Duration = 0)

\* C2: a Collect with an empty endpoint or a zero duration returns the
\* invalid-argument error at once and has no side effect: no snapshot is
\* prepared, nothing is written or published, no capture or processing starts.
C2_InvalidTargetNoEffect ==
    \A t \in ClientTasks : CollectInvalid(t) =>
        /\ Returned(t)
        /\ ret[t] = RejectedText
        /\ effects[t] = {}
        /\ wrote[t] = {}
        /\ snap[t] = 0
        /\ snap[t] \notin DOMAIN data

C2_Witness ==
    \E t \in ClientTasks :
        /\ CollectInvalid(t) /\ Returned(t)
        /\ target[t].URL # "" /\ target[t].Duration = 0

\* A Collect call that has returned after its capture failed.
CaptureFailed(t) == op[t] = "Collect" /\ Returned(t) /\ cerr[t] # NoErr

\* C3: when Collect returns after a failed capture, the snapshot's Entry is
\* Fail with the capture error's text, this call never invoked the processor
\* and no "Processing" status was ever written for the snapshot.
C3_CaptureFailure ==
    \A t \in ClientTasks : CaptureFailed(t) =>
        /\ data[snap[t]] = Entry(snap[t], StatusFail, cerr[t])
        /\ "process" \notin effects[t]
        /\ "prune" \notin effects[t]
        /\ underlyingCalls[snap[t]] = 0 \/ \E g \in ClientTasks : op[g] = "Get" /\ snap[g] = snap[t]
        /\ \A k \in 1..Len(hist[snap[t]]) : hist[snap[t]][k].Message # "Processing"

C3_Witness == \E t \in ClientTasks : CaptureFailed(t)

\* A Collect call that has returned after capture succeeded and processing failed.
ProcessingFailed(t) ==
    op[t] = "Collect" /\ Returned(t) /\ cerr[t] = NoErr /\ perr[t] # NoErr

\* C4: when Collect returns after a failed processing, the snapshot's Entry
\* is Fail and its Message is the text of the error Process returned.
C4_ProcessingFailureMessage ==
    \A t \in ClientTasks : ProcessingFailed(t) =>
        /\ data[snap[t]].Status = StatusFail
        /\ data[snap[t]].Message = perr[t]

\* Process has failed inside runProcessor for snapshot i.
RunProcessorFailed(i) ==
    \E t \in Tasks : op[t] # "Get" /\ pc[t] = "rp_after" /\ snap[t] = i /\ perr[t] # NoErr

\* C5: whenever Process fails inside runProcessor, the snapshot's Prune
\* eventually runs (as a task of its own).
C5_PruneEventually == \A i \in IDs : RunProcessorFailed(i) ~> (pruneDone[i] > 0)

\* The Fail update of runProcessor has returned while Prune has not run.
C5_Witness ==
    \E i \in DOMAIN lastCompleted :
        /\ lastCompleted[i].Status = StatusFail
        /\ pruneSpawned[i] > 0
        /\ pruneDone[i] = 0

\* A Get whose lookup found the ledger without the requested ID.
GetAbsent(t) ==
    op[t] = "Get" /\ pc[t] \notin {"idle", "g_rlock"} /\ absent[t]

\* C6: a Get on an ID absent from the ledger returns the not-found error,
\* calls no processor and writes nothing to the ledger.
C6_GetNotFound ==
    \A t \in ClientTasks : GetAbsent(t) =>
        /\ pc[t] \in {"g_ret", "done"}
        /\ ret[t] = "no such entry: <nil>"
        /\ effects[t] = {}
        /\ wrote[t] = {}

C6_Witness == \E t \in ClientTasks : GetAbsent(t) /\ Returned(t) /\ DOMAIN data # {}

Terminal == {StatusOk, StatusFail}

\* C7: for every ID the first status written is Pending, and after Ok or
\* Fail is written every later write keeps that status.
C7_StatusMachine ==
    \A i \in IDs :
        /\ Len(hist[i]) > 0 => hist[i][1].Status = StatusPending
        /\ \A j \in 1..Len(hist[i]) : \A k \in j..Len(hist[i]) :
               hist[i][j].Status \in Terminal => hist[i][k].Status = hist[i][j].Status
        /\ i \in DOMAIN data => data[i] = hist[i][Len(hist[i])]

C7_Witness ==
    /\ \E i \in IDs : Len(hist[i]) = 4 /\ hist[i][3].Status = StatusFail
    /\ \E i \in IDs : Len(hist[i]) = 2 /\ hist[i][2].Status = StatusOk

LastCompletedEntries == {lastCompleted[i] : i \in DOMAIN lastCompleted}

\* C8: readers only see Entries whose Status is Pending, Ok or Fail, and
\* what a reader holding the lock has read is, for every ID, the Entry
\* written by the last updateStatus call that returned.
C8_ReadsLastCompleted ==
    \A t \in ClientTasks :
        /\ got[t] # NoEntry => got[t].Status \in Statuses
        /\ \A e \in listResult[t] : e.Status \in Statuses
        /\ t \in readers =>
            /\ op[t] = "List" =>
                 /\ listResult[t] \subseteq LastCompletedEntries
                 /\ listTodo[t] = {} => listResult[t] = LastCompletedEntries
            /\ op[t] = "Get" =>
                 /\ got[t] # NoEntry => /\ arg[t] \in DOMAIN lastCompleted
                                        /\ got[t] = lastCompleted[arg[t]]
                 /\ got[t] = NoEntry => arg[t] \notin DOMAIN lastCompleted

C8_Witness ==
    \E t \in ClientTasks : \E i \in DOMAIN lastCompleted :
        /\ t \in readers /\ op[t] = "List"
        /\ Len(hist[i]) >= 1
        /\ lastCompleted[i] \in listResult[t]
        /\ \E w \in Tasks : pc[w] = "us_wait"

InsideProcess(t) == pc[t] \in {"proc_wait", "proc_run"}
InsideCapture(t) == pc[t] = "c_capture"

\* C9: a task that is inside Process or inside the capture call holds
\* neither the shared nor the exclusive ledger lock.
C9_NoLockAcrossBlockingCalls ==
    \A t \in Tasks :
        (InsideProcess(t) \/ InsideCapture(t)) => ~HoldsShared(t) /\ ~HoldsExclusive(t)

\* C10: no task executes Publish while it holds the exclusive ledger lock.
C10_PublishOutsideLock ==
    \A t \in Tasks : pc[t] = "us_publish" => ~HoldsExclusive(t)

\* The number of ledger writes done so far, over the keys in S.
RECURSIVE WritesIn(_)
WritesIn(S) ==
    IF S = {} THEN 0
    ELSE LET i == CHOOSE x \in S : TRUE IN Len(hist[i]) + WritesIn(S \ {i})

\* The updateStatus calls that have written and are inside Publish.
Publishing == {t \in Tasks : pc[t] = "us_publish"}

\* An operation that makes no updateStatus call.
NeverUpdates(t) ==
    \/ op[t] \in {"Get", "List"}
    \/ op[t] = "Collect" /\ ~ValidTarget(target[t])

\* C11: every ledger write is followed by exactly one Publish and nothing
\* else publishes: the number of Publish calls is the number of ledger writes
\* less the updateStatus calls still inside Publish, and Get, List and a
\* rejected Collect never publish.
C11_OnePublishPerWrite ==
    /\ published = WritesIn(IDs) - Cardinality(Publishing)
    /\ \A t \in ClientTasks : NeverUpdates(t) => "publish" \notin effects[t]

C11_Witness ==
    /\ published >= 2
    /\ Publishing = {}
    /\ \E t \in ClientTasks : NeverUpdates(t) /\ Returned(t)

\* The tasks running the underlying processor for ID i.
Runners(i) == {t \in Tasks : pc[t] = "proc_run" /\ snap[t] = i}

\* Task t has got the outcome of a Process call.
ProcessReturned(t) ==
    /\ "process" \in effects[t]
    /\ pc[t] \notin {"proc_call", "proc_wait", "proc_run"}

C13_NewSpawnsAll ==
    newPc = "returned" =>
        /\ spawnIdx = NumPersisted + 1
        /\ \A t \in RecoveryTasks : pc[t] # "unspawned" /\ snap[t] = t
        /\ \A t, u \in RecoveryTasks : snap[t] = snap[u] => t = u

\* New has returned and no listed snapshot has a ledger entry yet.
C13_Witness ==
    /\ newPc = "returned"
    /\ DOMAIN data = {}
    /\ \A t \in RecoveryTasks : pc[t] = "us_lock" /\ "write" \notin effects[t]

\* A Collect call with a valid target that has returned.
CollectReturned(t) ==
    op[t] = "Collect" /\ Returned(t) /\ ValidTarget(target[t])

\* C14: a Collect with a valid target returns nil exactly when its snapshot's
\* Entry is Ok; when it returns an error the Entry is Fail and the error is
\* "failed to collect: ..." around the capture error or "failed to process:
\* ..." around runProcessor's error, according to the stage that failed.
C14_CollectOutcome ==
    \A t \in ClientTasks : CollectReturned(t) =>
        /\ snap[t] \in DOMAIN data
        /\ ret[t] = NoErr <=> data[snap[t]].Status = StatusOk
        /\ ret[t] # NoErr =>
             /\ data[snap[t]].Status = StatusFail
             /\ \/ /\ cerr[t] # NoErr
                   /\ "process" \notin effects[t]
                   /\ ret[t] = "failed to collect: " \o cerr[t]
                \/ /\ cerr[t] = NoErr /\ perr[t] # NoErr
                   /\ ret[t] = "failed to process: processor aborted: " \o perr[t]

C14_Witness ==
    \E t \in ClientTasks :
        /\ CollectReturned(t)
        /\ ret[t] = "failed to process: processor aborted: bad profile"
        /\ data[snap[t]].Status = StatusFail

\* What startup recovery ends with for the listed snapshot of task t.
RecoveryOutcome(t) ==
    /\ Returned(t)
    /\ ret[t] = NoErr
    /\ snap[t] \in DOMAIN data
    /\ IF perr[t] = NoErr
         THEN data[snap[t]] = Entry(snap[t], StatusOk, "Ready")
         ELSE /\ data[snap[t]] = Entry(snap[t], StatusFail, perr[t])
              /\ pruneSpawned[snap[t]] > 0

\* C15: every recovery task that New started ends with its snapshot's Entry
\* Ok / "Ready" when Process succeeded, and Fail with the Process error text
\* and a Prune started when it failed; the error goes to no caller.
C15_RecoveryOutcome ==
    \A t \in RecoveryTasks : (pc[t] # "unspawned") ~> RecoveryOutcome(t)

\* A recovery task has failed and ended while a client's call is under way.
C15_Witness ==
    \E t \in RecoveryTasks :
        /\ RecoveryOutcome(t) /\ perr[t] # NoErr
        /\ newPc = "returned"
        /\ \E c \in ClientTasks : pc[c] \notin {"idle", "done"}

\* The Entries of the ledger under the keys in S.
LedgerEntries(S) == {data[i] : i \in S}

\* C16: while List copies, under the shared lock, what it has copied is the
\* present ledger at the keys visited, so that the result is the whole ledger
\* of the instant the loop ends; once List has returned, no step changes the
\* result.
C16_ListPointInTime ==
    /\ [](\A t \in ClientTasks : pc[t] = "l_copy" =>
             /\ listTodo[t] \subseteq DOMAIN data
             /\ listResult[t] = LedgerEntries(DOMAIN data \ listTodo[t]))
    /\ [][\A t \in ClientTasks :
             (op[t] = "List" /\ Returned(t)) => listResult'[t] = listResult[t]]_vars

\* A returned List whose result is no longer the ledger's content.
C16_Witness ==
    \E t \in ClientTasks :
        /\ op[t] = "List" /\ Returned(t)
        /\ listResult[t] # {}
        /\ listResult[t] # LedgerEntries(DOMAIN data)

\* A Get whose lookup found the requested ID.
GetPresent(t) == op[t] = "Get" /\ got[t] # NoEntry

\* C17: a Get that found its ID calls Process for the Entry's snapshot
\* whatever the Entry's status, returns what Process returned, and does
\* nothing else: no ledger write, no Publish, the Entry it found still in
\* the ledger while it holds the lock.
C17_GetDelegates ==
    \A t \in ClientTasks : GetPresent(t) =>
        /\ snap[t] = got[t].Snapshot
        /\ effects[t] \subseteq {"process"}
        /\ wrote[t] = {}
        /\ t \in readers => data[arg[t]] = got[t]
        /\ pc[t] = "g_ret" => "process" \in effects[t]
        /\ Returned(t) => "process" \in effects[t] /\ ret[t] = perr[t]

\* A Get has returned the error of the Process call it made for an Entry
\* that was Fail, and the Entry is as it was.
C17_Witness ==
    \E t \in ClientTasks :
        /\ GetPresent(t) /\ Returned(t)
        /\ got[t].Status = StatusFail
        /\ ret[t] \in ProcErrors
        /\ data[arg[t]] = got[t]

\* Task t is inside updateStatus, Get, List, or a call that contains them.
Started(t) == pc[t] \notin {"unspawned", "idle", "done"}

\* C18: the ledger lock never blocks for ever: every task that has started
\* an operation (runProcessor, Collect, Get or List, with the updateStatus
\* calls they make) finishes it, Process, capture and Publish terminating.
C18_NoDeadlock == \A t \in Tasks : Started(t) ~> Returned(t)

\* A Get holds the shared lock and waits inside Process for the computation
\* that a runProcessor task runs for the same ID; that task has to take the
\* exclusive lock next.
C18_Witness ==
    \E g \in ClientTasks : \E r \in Tasks :
        /\ op[g] = "Get" /\ pc[g] = "proc_wait" /\ HoldsShared(g)
        /\ op[r] # "Get" /\ pc[r] = "proc_run" /\ snap[r] = snap[g]

\* Snapshot i has been recorded as failed at some time.
EverFailed(i) == \E n \in 1..Len(hist[i]) : hist[i][n].Status = StatusFail

\* C19: every key that was ever written is in the ledger (pruned or not),
\* the Entry under key k is of snapshot k, which is a snapshot (not nil), and
\* a snapshot recorded as failed and pruned still has its Fail Entry.
C19_LedgerGrowsOnly ==
    /\ \A i \in IDs : Len(hist[i]) > 0 => i \in DOMAIN data
    /\ \A k \in DOMAIN data : data[k].Snapshot = k /\ data[k] # NoEntry /\ k \in IDs
    /\ \A i \in IDs : (pruneDone[i] > 0 /\ EverFailed(i)) =>
          i \in DOMAIN data /\ data[i].Status = StatusFail

\* A snapshot has been pruned and its Fail Entry is in the ledger.
C19_Witness ==
    \E i \in DOMAIN data :
        /\ pruneDone[i] > 0
        /\ data[i].Status = StatusFail
        /\ EverFailed(i)

\* The tasks whose runProcessor execution has started Prune for snapshot i.
Pruners(i) == {t \in Tasks : snap[t] = i /\ "prune" \in effects[t]}

\* C20: Prune is started only by a runProcessor execution whose Process call
\* failed, once; so never for a snapshot whose capture failed, never for one
\* whose runProcessor found Process successful, and never by Get.
C20_PruneOnlyOnFailedProcess ==
    /\ \A i \in IDs : pruneSpawned[i] = Cardinality(Pruners(i))
    /\ \A t \in Tasks : "prune" \in effects[t] =>
          /\ op[t] \in {"runProcessor", "Collect"}
          /\ ProcessReturned(t) /\ perr[t] # NoErr /\ cerr[t] = NoErr
    /\ \A t \in Tasks :
          (op[t] \in {"runProcessor", "Collect"} /\ snap[t] \in IDs
           /\ (cerr[t] # NoErr \/ (ProcessReturned(t) /\ perr[t] = NoErr)))
             => pruneSpawned[snap[t]] = 0

\* Process failed inside a Get and then succeeded inside the snapshot's
\* runProcessor: the snapshot is Ok and was not pruned.
C20_Witness ==
    \E g \in ClientTasks : \E r \in RecoveryTasks :
        /\ op[g] = "Get" /\ Returned(g) /\ snap[g] = snap[r]
        /\ perr[g] # NoErr
        /\ Returned(r) /\ perr[r] = NoErr
        /\ pruneSpawned[snap[r]] = 0
====
